---- MODULE Spec2Model ----
(***************************************************************************)
(* A model of the hexmedia ingest core:                                     *)
(*   - IngestPlanner (bucket balancing, identity generation)                *)
(*   - IngestWorker.run (probe, hash, insert, move inside a SAVEPOINT)       *)
(*   - ThreadManager (bounded pool with a semaphore for backpressure)       *)
(*   - ThumbWorker / SqlAlchemyMediaAssetRepo (asset upserts)               *)
(* Each component has its own specification (SpecPlanner, SpecIngest,       *)
(* SpecPool, SpecThumb); the variables of the other components are frozen.  *)
(***************************************************************************)
EXTENDS Integers, Sequences, FiniteSets, TLC

VARIABLES
    \* ---- IngestPlanner ----
    bucketMax,      \* IngestPlanner._bucket_max (cfg.hexmedia_bucket_max)
    repoCounts,     \* what query_repo.count_media_items_by_bucket() returns
    files,          \* the list of candidate paths given to plan()
    counts,         \* the in-memory counts map of one plan() call
    planIdx,        \* index of the next file of the loop in plan()
    items,          \* the plan items appended so far
    planPc,         \* "idle" | "planning" | "done" | "failed"
    planErr,        \* the exception that ended plan(), or "none"
    lastCounts,     \* the counts map passed to the latest _choose_bucket call
    lastChoice      \* what that call returned (or raised)

VARIABLES
    \* ---- ThreadManager ----
    maxQueue,       \* the max_queue given to __init__ (0: None or <= 0, unbounded)
    maxWorkers,     \* the max_workers of the ThreadPoolExecutor
    slots,          \* value of the semaphore self._slots (unused when unbounded)
    closed,         \* self._closed
    stopFlag,       \* self._stop (threading.Event)
    execShutdown,   \* the executor has been shut down
    stats,          \* self._stats: tasks_submitted, tasks_completed, tasks_failed
    job,            \* per job: state, outcome, done-callback registered/run
    sub,            \* per submitting thread: position in submit() and its job
    nextJob,        \* the next unused job number
    shutPc,         \* position of the thread calling shutdown()
    shutCalls       \* number of shutdown() calls made

VARIABLES
    \* ---- IngestWorker.run, its session and the filesystem ----
    plan,           \* the plan the worker's planner returns for the files
    dryRun,         \* the dry_run argument
    dbCommitted,    \* media_item rows committed in the store
    txFlushed,      \* rows flushed in the session's open (outer) transaction
    pending,        \* rows added to the session and not yet flushed
    savepoint,      \* a begin_nested() scope is open
    srcExists,      \* per incoming source path: the file is there
    destFile,       \* per identity triplet: the content at its destination path
    itemDirs,       \* the item directories that exist under media_root
    ingPc,          \* position in run(), then what the caller's transaction did
    idx,            \* index of the plan item being processed
    rpt,            \* the IngestReport
    ingErr,         \* the exception that left run(), or "none"
    movedItems,     \* indexes of the plan items whose file this run moved
    failedAt        \* per plan index: the step of run() that failed for it

plannerVars == <<bucketMax, repoCounts, files, counts, planIdx, items, planPc,
                 planErr, lastCounts, lastChoice>>

poolVars == <<maxQueue, maxWorkers, slots, closed, stopFlag, execShutdown, stats,
              job, sub, nextJob, shutPc, shutCalls>>

ingestVars == <<plan, dryRun, dbCommitted, txFlushed, pending, savepoint,
                srcExists, destFile, itemDirs, ingPc, idx, rpt, ingErr, movedItems,
                failedAt>>

VARIABLES
    \* ---- media assets of one item and thumbnail generation ----
    assetRows,      \* committed media_asset rows of the item
    lastUpsert,     \* per kind: the payload of the latest PUT /upsert
    assetLastOp,    \* the latest operation on the assets: upsert or thumb
    thumbRuns,      \* thumbnail generations run so far
    thumbRegenAll,  \* every generation so far was given regenerate=True
    thumbEnv,       \* what the latest generation was given and met
    thumbFiles,     \* per kind: the generation that last wrote its file
    thumbRep        \* outcome of the latest generation

VARIABLES
    \* ---- one call of ThreadManager.imap_unordered or ThreadManager.map ----
    bulkMode,       \* which helper is called: imap or map
    bulkN,          \* number of items of the iterable
    prefetch,       \* the prefetch argument of imap_unordered
    bulkPc,         \* position of the calling thread in the helper
    pulled,         \* items taken from the iterable so far
    bulkJob,        \* the job of the submit call the helper is in
    inflight,       \* imap_unordered: the list inflight
    snap,           \* imap_unordered: futures as_completed still has to yield
    futs,           \* the futures submit has returned to the helper, in order
    yielded,        \* jobs whose result reached the consumer, in order
    bulkErr         \* the exception that left the helper

bulkVars == <<bulkMode, bulkN, prefetch, bulkPc, pulled, bulkJob, inflight,
              snap, futs, yielded, bulkErr>>

VARIABLES
    \* ---- one call of ThumbService.run over its candidates ----
    runCands,       \* per candidate: what its process_one job does
    runWorkers,     \* the workers argument
    runPc,          \* ready, or returned
    runRep          \* the ThumbRunReport (pool: max_workers of the executor)

runVars == <<runCands, runWorkers, runPc, runRep>>

VARIABLES
    \* ---- one call that starts external subprocesses ----
    extCall,        \* which call, and what it finds installed
    extPc,          \* ready, child, probed, frames, returned, raised
    extProc,        \* the child process of the call
    extDone,        \* frames extracted so far
    extInfo,        \* what _probe_basic learned: duration, or none
    extErr          \* the exception that left the call

extVars == <<extCall, extPc, extProc, extDone, extInfo, extErr>>

thumbVars == <<assetRows, lastUpsert, assetLastOp, thumbRuns, thumbRegenAll,
               thumbEnv, thumbFiles, thumbRep>>

vars == <<plannerVars, poolVars, ingestVars, thumbVars, bulkVars, runVars, extVars>>

\* what the actions of one component leave alone
notPlannerVars ==
    <<poolVars, ingestVars, thumbVars, bulkVars, runVars, extVars>>
notPoolVars ==
    <<plannerVars, ingestVars, thumbVars, bulkVars, runVars, extVars>>
notIngestVars ==
    <<plannerVars, poolVars, thumbVars, bulkVars, runVars, extVars>>
notThumbVars ==
    <<plannerVars, poolVars, ingestVars, bulkVars, runVars, extVars>>
notRunVars ==
    <<plannerVars, poolVars, ingestVars, thumbVars, bulkVars, extVars>>
notExtVars ==
    <<plannerVars, poolVars, ingestVars, thumbVars, bulkVars, runVars>>
notBulkVars ==
    <<plannerVars, poolVars, ingestVars, thumbVars, runVars, extVars>>

-----------------------------------------------------------------------------
(* Bounds of the model *)

MaxFiles == 3          \* longest list of candidate paths
MaxBuckets == 2        \* most bucket keys the repository reports
MaxCount == 2          \* largest count the repository reports for a bucket
MaxCapacity == 2       \* largest configured bucket capacity
MaxQueue == 2          \* largest outstanding-task ceiling (max_queue)
MaxWorkers == 2        \* largest number of worker threads
MaxJobs == 3           \* number of submit() calls made in all
MaxShutdownCalls == 2  \* number of shutdown() calls made in all
MaxPlan == 2           \* longest plan given to IngestWorker.run
MaxThumbRuns == 2      \* thumbnail generations run for the item
MaxPrefetch == 1       \* largest prefetch given to imap_unordered
MaxCands == 2          \* candidates of one ThumbService.run
MaxFrames == 3         \* frames of one generate_collage

-----------------------------------------------------------------------------
(* Strings over the bucket alphabet "0-9a-z": a key is the sequence of the  *)
(* positions of its characters in _bucket_chars, so Python's string order   *)
(* is the lexicographic order of these sequences ('0' < '9' < 'a' < 'z').   *)

Base == 36
MaxInt == Base * Base * Base

K000 == <<0, 0, 0>>
K001 == <<0, 0, 1>>
K002 == <<0, 0, 2>>
K003 == <<0, 0, 3>>
Kzzz == <<35, 35, 35>>
K2 == <<2>>            \* the unpadded key "2"

\* keys a repository (or the media tree) may report
RepoKeys == {K000, K001, K003, K2, Kzzz}

RECURSIVE LexLessFrom(_, _, _)
LexLessFrom(a, b, i) ==
    IF i > Len(a) THEN i <= Len(b)
    ELSE IF i > Len(b) THEN FALSE
    ELSE IF a[i] < b[i] THEN TRUE
    ELSE IF a[i] > b[i] THEN FALSE
    ELSE LexLessFrom(a, b, i + 1)

\* Python: a < b on str
StrLess(a, b) == LexLessFrom(a, b, 1)

\* Python: min(...) / max(...) over a non-empty collection of str
StrMin(S) == CHOOSE x \in S : \A y \in S : x = y \/ StrLess(x, y)
StrMax(S) == CHOOSE x \in S : \A y \in S : x = y \/ StrLess(y, x)

\* Python: min(...) over a non-empty collection of int
IntMin(S) == CHOOSE x \in S : \A y \in S : x <= y

\* Python: val.rjust(3, "0") for len(val) < 4
RJust3(s) ==
    IF Len(s) >= 3 THEN s
    ELSE IF Len(s) = 2 THEN <<0>> \o s
    ELSE IF Len(s) = 1 THEN <<0, 0>> \o s
    ELSE <<0, 0, 0>>

\* results of a call that may raise: err is "none" or the exception's type
Ok(k) == [err |-> "none", key |-> k]
Raise(e) == [err |-> e, key |-> <<>>]

\* _bucket_name_converter(val: str) -> int (the characters are all in 0-9a-z)
BucketStrToInt(s) ==
    LET v == RJust3(s) IN v[1] * (Base * Base) + v[2] * Base + v[3]

\* _bucket_name_converter(val: int) -> str; digits[a] raises IndexError when
\* a = 36, which the guard 0 < val <= max_int lets through for val = 46656
BucketIntToStr(val) ==
    IF 0 < val /\ val <= MaxInt
    THEN LET a == val \div (Base * Base)
             b == (val \div Base) % Base
             c == val % Base
         IN  IF a >= Base THEN Raise("IndexError") ELSE Ok(<<a, b, c>>)
    ELSE Raise("ValueError")

\* a _choose_bucket that breaks ties with max(low_buckets)
ChooseBucketLargestTie(ct) ==
    IF DOMAIN ct # {}
    THEN LET lowest_count == IntMin({ct[b] : b \in DOMAIN ct})
             low_buckets == {b \in DOMAIN ct : ct[b] = lowest_count}
         IN  IF lowest_count < bucketMax
             THEN Ok(StrMax(low_buckets))
             ELSE Ok(K000)
    ELSE Ok(K000)

\* IngestPlanner._choose_bucket
ChooseBucket(ct) ==
    IF DOMAIN ct # {}
    THEN LET lowest_count == IntMin({ct[b] : b \in DOMAIN ct})
             low_buckets == {b \in DOMAIN ct : ct[b] = lowest_count}
             lowest_bucket == StrMin(low_buckets)
             biggest_bucket == StrMax(DOMAIN ct)
         IN  IF lowest_count < bucketMax
             THEN Ok(lowest_bucket)
             ELSE IF Len(biggest_bucket) < 4
                  THEN BucketIntToStr(BucketStrToInt(biggest_bucket) + 1)
                  ELSE Raise("ValueError")
    ELSE Ok(K000)

\* a plan() that forgets the increment: the key is created, its count kept
IncCountForgotten(ct, b) ==
    [k \in DOMAIN ct \cup {b} |-> IF k \in DOMAIN ct THEN ct[k] ELSE 0]

\* counts[bucket] += 1 on a defaultdict(int)
IncCount(ct, b) ==
    [k \in DOMAIN ct \cup {b} |-> IF k = b
                                  THEN (IF b \in DOMAIN ct THEN ct[b] ELSE 0) + 1
                                  ELSE ct[k]]

\* IngestPlanner.get_bucket_counts, repository fast path: counts[b] = int(n)
\* for every (b, n) the repository returns, keys taken as they come
GetBucketCounts(rc) == [b \in DOMAIN rc |-> rc[b]]

-----------------------------------------------------------------------------
(* Candidate paths.  A path is its name and its suffix as typed.            *)

PathA == [name |-> "a", suffix |-> "mp4"]
PathB == [name |-> "b", suffix |-> "JPG"]
PathC == [name |-> "notes", suffix |-> ""]
Paths == {PathA, PathB, PathC}

\* str.lower() on the suffixes in use
Lower(s) == IF s = "JPG" THEN "jpg" ELSE s

\* IngestPlanner._ext_of
ExtOf(p) == IF p.suffix # "" THEN Lower(p.suffix) ELSE ""

VideoExts == {"mp4", "mov", "flv"}
ImageExts == {"jpg", "jpeg", "png", "gif", "webp"}
SidecarExts == {"vtx"}
AllExts == VideoExts \cup ImageExts \cup SidecarExts

\* IngestPlanner._classify_kind
ClassifyKind(ext) ==
    IF ext \in VideoExts THEN "video"
    ELSE IF ext \in ImageExts THEN "image"
    ELSE IF ext \in SidecarExts THEN "sidecar"
    ELSE "unknown"

\* IngestPlanner._identity_for: the first 12 hex digits of the SHA-1 of the
\* resolved path, size and mtime; a function of the path (equal paths give
\* equal identities)
IdentityFor(p) == <<"sha1", p.name, p.suffix>>

\* the dict appended by plan() for one file
PlanItemFor(src, bucket) ==
    [src |-> src,
     ext |-> ExtOf(src),
     kind |-> ClassifyKind(ExtOf(src)),
     supported |-> ExtOf(src) \in AllExts,
     bucket |-> bucket,
     item |-> IdentityFor(src)]

-----------------------------------------------------------------------------
(* IngestPlanner.plan *)

SeqsUpTo(S, n) == UNION {[1..k -> S] : k \in 0..n}

CountMaps ==
    UNION {[D -> 0..MaxCount] : D \in {X \in SUBSET RepoKeys : Cardinality(X) <= MaxBuckets}}

InitPlanner ==
    /\ bucketMax \in 1..MaxCapacity
    /\ repoCounts \in CountMaps
    /\ files \in SeqsUpTo(Paths, MaxFiles)
    /\ counts = <<>>
    /\ planIdx = 1
    /\ items = <<>>
    /\ planPc = "idle"
    /\ planErr = "none"
    /\ lastCounts = <<>>
    /\ lastChoice = Ok(<<>>)

\* plan(): files = list(files or []); counts = self.get_bucket_counts()
PlanStart ==
    /\ planPc = "idle"
    /\ planPc' = "planning"
    /\ counts' = GetBucketCounts(repoCounts)
    /\ UNCHANGED <<bucketMax, repoCounts, files, planIdx, items, planErr,
                   lastCounts, lastChoice>>
    /\ UNCHANGED notPlannerVars

\* one iteration of the loop of plan(): choose, append, increment
PlanFile ==
    /\ planPc = "planning"
    /\ planIdx <= Len(files)
    /\ LET r == ChooseBucket(counts) IN
         /\ lastCounts' = counts
         /\ lastChoice' = r
         /\ IF r.err # "none"
            THEN /\ planPc' = "failed"
                 /\ planErr' = r.err
                 /\ UNCHANGED <<items, counts, planIdx>>
            ELSE /\ items' = Append(items, PlanItemFor(files[planIdx], r.key))
                 /\ counts' = IncCount(counts, r.key)
                 /\ planIdx' = planIdx + 1
                 /\ UNCHANGED <<planPc, planErr>>
    /\ UNCHANGED <<bucketMax, repoCounts, files>>
    /\ UNCHANGED notPlannerVars

\* plan(): return items
PlanReturn ==
    /\ planPc = "planning"
    /\ planIdx > Len(files)
    /\ planPc' = "done"
    /\ UNCHANGED <<bucketMax, repoCounts, files, counts, planIdx, items,
                   planErr, lastCounts, lastChoice>>
    /\ UNCHANGED notPlannerVars

NextPlanner == PlanStart \/ PlanFile \/ PlanReturn

-----------------------------------------------------------------------------
(* Properties of the planner *)

\* _choose_bucket has been called at least once in this plan() call
ChoiceMade == Len(items) > 0 \/ planPc = "failed"

CountOf(ct, b) == IF b \in DOMAIN ct THEN ct[b] ELSE 0

\* C4: for a non-empty counts map with a bucket below capacity, _choose_bucket
\* returns a bucket of minimum count, and the lexicographically smallest key
\* among the buckets with that count.
C4_LeastFilledSmallestKey ==
    (ChoiceMade /\ \E b \in DOMAIN lastCounts : lastCounts[b] < bucketMax)
    => /\ lastChoice.err = "none"
       /\ lastChoice.key \in DOMAIN lastCounts
       /\ \A b \in DOMAIN lastCounts :
             /\ lastCounts[lastChoice.key] <= lastCounts[b]
             /\ (lastCounts[b] = lastCounts[lastChoice.key] /\ b # lastChoice.key)
                  => StrLess(lastChoice.key, b)

\* a tie between two buckets below capacity was broken
C4_Witness ==
    /\ ChoiceMade
    /\ \E a, b \in DOMAIN lastCounts :
         /\ a # b
         /\ lastCounts[a] = lastCounts[b]
         /\ lastCounts[a] < bucketMax
         /\ StrLess(a, b)
         /\ lastChoice = Ok(a)

\* the key after k in base 36, by carrying digits (k has three digits)
Base36Succ(k) ==
    IF k[3] < Base - 1 THEN <<k[1], k[2], k[3] + 1>>
    ELSE IF k[2] < Base - 1 THEN <<k[1], k[2] + 1, 0>>
    ELSE <<k[1] + 1, 0, 0>>

\* C5: when every known bucket is at or above capacity, _choose_bucket returns
\* the base-36 successor of the lexicographically largest known key, a
\* 3-character key not yet present in counts; when the largest key is "zzz"
\* the call fails with an error.
C5_SpillsToUnusedSuccessor ==
    (ChoiceMade /\ DOMAIN lastCounts # {}
       /\ \A b \in DOMAIN lastCounts : lastCounts[b] >= bucketMax)
    => LET top == StrMax(DOMAIN lastCounts) IN
         IF top = Kzzz
         THEN lastChoice.err # "none"
         ELSE /\ lastChoice = Ok(Base36Succ(RJust3(top)))
              /\ Len(lastChoice.key) = 3
              /\ lastChoice.key \notin DOMAIN lastCounts

Triplet(it) == <<it.bucket, it.item, it.ext>>

\* C6: no two plan items of one plan() call share the identity triplet
\* (bucket, item, ext), also when a path repeats in the input list.
C6_TripletsDistinct ==
    \A i, j \in 1..Len(items) : i # j => Triplet(items[i]) # Triplet(items[j])

\* C10: the bucket chosen for a file has its in-memory count incremented by
\* one before the next choice; capacity 2 with counts {"000": 2, "001": 0} and
\* three files gives the buckets "001", "001", "002" in that order.
C10_CountsUpdatedInInputOrder ==
    /\ (Len(items) > 0 /\ lastChoice.err = "none")
       => /\ items[Len(items)].bucket = lastChoice.key
          /\ DOMAIN counts = DOMAIN lastCounts \cup {lastChoice.key}
          /\ \A b \in DOMAIN counts :
                counts[b] = CountOf(lastCounts, b) + (IF b = lastChoice.key THEN 1 ELSE 0)
    /\ (/\ planPc = "done"
        /\ bucketMax = 2
        /\ Len(files) = 3
        /\ DOMAIN repoCounts = {K000, K001}
        /\ repoCounts[K000] = 2
        /\ repoCounts[K001] = 0)
       => [i \in 1..Len(items) |-> items[i].bucket] = <<K001, K001, K002>>

\* the example run has returned
C10_Witness ==
    /\ planPc = "done"
    /\ bucketMax = 2
    /\ Len(files) = 3
    /\ DOMAIN repoCounts = {K000, K001}
    /\ repoCounts[K000] = 2
    /\ repoCounts[K001] = 0
    /\ Len(items) = 3
    /\ counts[K002] = 1

\* IngestPlanner._is_valid_bucket: three characters, each 0-9 or a-z
IsValidBucket(k) == Len(k) = 3 /\ \A i \in 1..Len(k) : k[i] \in 0..(Base - 1)

\* C11: once plan() has read the bucket counts, every key of the counts map
\* and every bucket of a plan item is a canonical 3-character base-36
\* string, whatever key formats the repository returned.
C11_KeysAreCanonical ==
    planPc # "idle" =>
      /\ \A b \in DOMAIN counts : IsValidBucket(b)
      /\ \A i \in 1..Len(items) : IsValidBucket(items[i].bucket)

\* C28: plan never assigns a file to a bucket whose in-memory count at the
\* moment of the choice is at or above capacity, and after plan() every bucket
\* that received a file has an in-memory count of at most the capacity.
C28_NeverAssignsToFullBucket ==
    /\ (ChoiceMade /\ lastChoice.err = "none")
         => CountOf(lastCounts, lastChoice.key) < bucketMax
    /\ planPc = "done"
         => \A i \in 1..Len(items) : counts[items[i].bucket] <= bucketMax

-----------------------------------------------------------------------------
(* ThreadManager *)

Submitters == {"t1", "t2"}
JobIds == 1..MaxJobs

NoJob == [st |-> "unborn", outcome |-> "none", cb |-> FALSE, counted |-> FALSE]

\* self._slots is None when max_queue is None or <= 0
Bounded == maxQueue > 0

\* a semaphore that hands a slot back twice
ReleaseSlotTwice(s) == s + 2

\* threading.Semaphore.release()
ReleaseSlot(s) == s + 1

\* threading.Semaphore.acquire() returns once the value is positive
CanAcquire(s) == s > 0
AcquireSlot(s) == s - 1

Running == {j \in JobIds : job[j].st = "running"}

\* the done-callback _cb / _cb2: f.result() returned or raised
CountDone(st, outcome) ==
    IF outcome = "ok"
    THEN [st EXCEPT !.tasks_completed = @ + 1]
    ELSE [st EXCEPT !.tasks_failed = @ + 1]

InitPool ==
    /\ maxQueue \in 0..MaxQueue
    /\ maxWorkers \in 1..MaxWorkers
    /\ slots = maxQueue
    /\ closed = FALSE
    /\ stopFlag = FALSE
    /\ execShutdown = FALSE
    /\ stats = [tasks_submitted |-> 0, tasks_completed |-> 0, tasks_failed |-> 0]
    /\ job = [j \in JobIds |-> NoJob]
    /\ sub = [t \in Submitters |-> [pc |-> "idle", job |-> 0]]
    /\ nextJob = 1
    /\ shutPc = "idle"
    /\ shutCalls = 0

ClosedCheckSkipped(c) == FALSE

\* if self._closed: raise RuntimeError(...)
ClosedCheck(c) == c

\* submit(): if self._closed: raise RuntimeError
SubmitEnter(t) ==
    /\ sub[t].pc = "idle"
    /\ nextJob <= MaxJobs
    /\ nextJob' = nextJob + 1
    /\ IF ClosedCheck(closed)
       THEN /\ job' = [job EXCEPT ![nextJob].st = "refused"]
            /\ UNCHANGED sub
       ELSE /\ sub' = [sub EXCEPT ![t] = [pc |-> "acquire", job |-> nextJob]]
            /\ UNCHANGED job
    /\ UNCHANGED <<maxQueue, maxWorkers, slots, closed, stopFlag, execShutdown,
                   stats, shutPc, shutCalls>>
    /\ UNCHANGED notPoolVars

\* submit(): if self._slots is not None: self._slots.acquire()
SubmitAcquire(t) ==
    /\ sub[t].pc = "acquire"
    /\ IF Bounded
       THEN /\ CanAcquire(slots)
            /\ slots' = AcquireSlot(slots)
       ELSE UNCHANGED slots
    /\ sub' = [sub EXCEPT ![t].pc = "count"]
    /\ job' = [job EXCEPT ![sub[t].job].st = "submitting"]
    /\ UNCHANGED <<maxQueue, maxWorkers, closed, stopFlag, execShutdown, stats,
                   nextJob, shutPc, shutCalls>>
    /\ UNCHANGED notPoolVars

\* submit(): with self._lock: self._stats.tasks_submitted += 1
SubmitCount(t) ==
    /\ sub[t].pc = "count"
    /\ stats' = [stats EXCEPT !.tasks_submitted = @ + 1]
    /\ sub' = [sub EXCEPT ![t].pc = "dispatch"]
    /\ UNCHANGED <<maxQueue, maxWorkers, slots, closed, stopFlag, execShutdown,
                   job, nextJob, shutPc, shutCalls>>
    /\ UNCHANGED notPoolVars

\* submit(): fut = self._executor.submit(_wrapped, ...); a shut-down executor
\* raises RuntimeError, which leaves submit() with the slot still taken
SubmitDispatch(t) ==
    /\ sub[t].pc = "dispatch"
    /\ IF execShutdown
       THEN /\ job' = [job EXCEPT ![sub[t].job].st = "rejected"]
            /\ sub' = [sub EXCEPT ![t] = [pc |-> "idle", job |-> 0]]
       ELSE /\ job' = [job EXCEPT ![sub[t].job].st = "queued"]
            /\ sub' = [sub EXCEPT ![t].pc = "addcb"]
    /\ UNCHANGED <<maxQueue, maxWorkers, slots, closed, stopFlag, execShutdown,
                   stats, nextJob, shutPc, shutCalls>>
    /\ UNCHANGED notPoolVars

\* submit(): fut.add_done_callback(_cb); return fut.  A future that is already
\* done (or cancelled) runs the callback at once, in the submitting thread.
SubmitAddCallback(t) ==
    /\ sub[t].pc = "addcb"
    /\ LET j == sub[t].job IN
         IF job[j].st \in {"done", "cancelled"}
         THEN /\ job' = [job EXCEPT ![j].cb = TRUE, ![j].counted = TRUE]
              /\ stats' = CountDone(stats, job[j].outcome)
         ELSE /\ job' = [job EXCEPT ![j].cb = TRUE]
              /\ UNCHANGED stats
    /\ sub' = [sub EXCEPT ![t] = [pc |-> "idle", job |-> 0]]
    /\ UNCHANGED <<maxQueue, maxWorkers, slots, closed, stopFlag, execShutdown,
                   nextJob, shutPc, shutCalls>>
    /\ UNCHANGED notPoolVars

\* a worker thread of the executor takes a queued work item and calls _wrapped
WorkerStart(j) ==
    /\ job[j].st = "queued"
    /\ Cardinality(Running) < maxWorkers
    /\ job' = [job EXCEPT ![j].st = "running"]
    /\ UNCHANGED <<maxQueue, maxWorkers, slots, closed, stopFlag, execShutdown,
                   stats, sub, nextJob, shutPc, shutCalls>>
    /\ UNCHANGED notPoolVars

\* _wrapped: fn returns or raises; finally: self._slots.release()
JobFinish(j) ==
    /\ job[j].st = "running"
    /\ \E o \in {"ok", "err"} :
         job' = [job EXCEPT ![j].st = "released", ![j].outcome = o]
    /\ slots' = IF Bounded THEN ReleaseSlot(slots) ELSE slots
    /\ UNCHANGED <<maxQueue, maxWorkers, closed, stopFlag, execShutdown, stats,
                   sub, nextJob, shutPc, shutCalls>>
    /\ UNCHANGED notPoolVars

\* the worker sets the future's result or exception and runs the callbacks
\* registered so far
FutureDone(j) ==
    /\ job[j].st = "released"
    /\ IF job[j].cb
       THEN /\ job' = [job EXCEPT ![j].st = "done", ![j].counted = TRUE]
            /\ stats' = CountDone(stats, job[j].outcome)
       ELSE /\ job' = [job EXCEPT ![j].st = "done"]
            /\ UNCHANGED stats
    /\ UNCHANGED <<maxQueue, maxWorkers, slots, closed, stopFlag, execShutdown,
                   sub, nextJob, shutPc, shutCalls>>
    /\ UNCHANGED notPoolVars

\* shutdown(): with self._lock: if self._closed: return;
\*             self._closed = True; self._stop.set()
ShutdownFlag ==
    /\ shutPc = "idle"
    /\ shutCalls < MaxShutdownCalls
    /\ shutCalls' = shutCalls + 1
    /\ IF closed
       THEN UNCHANGED <<closed, stopFlag, shutPc>>
       ELSE /\ closed' = TRUE
            /\ stopFlag' = TRUE
            /\ shutPc' = "executor"
    /\ UNCHANGED <<maxQueue, maxWorkers, slots, execShutdown, stats, job, sub,
                   nextJob>>
    /\ UNCHANGED notPoolVars

\* shutdown(): self._executor.shutdown(wait=wait, cancel_futures=cancel_futures);
\* with cancel_futures every work item still in the queue is cancelled, and a
\* cancelled future runs its callbacks (f.result() raises CancelledError)
ShutdownExecutor ==
    /\ shutPc = "executor"
    /\ shutPc' = "idle"
    /\ execShutdown' = TRUE
    /\ \E cancel_futures \in BOOLEAN :
         IF cancel_futures
         THEN /\ job' = [j \in JobIds |->
                          IF job[j].st = "queued"
                          THEN [st |-> "cancelled", outcome |-> "err",
                                cb |-> job[j].cb, counted |-> job[j].cb]
                          ELSE job[j]]
              /\ stats' = [stats EXCEPT !.tasks_failed = @ +
                             Cardinality({j \in JobIds : job[j].st = "queued" /\ job[j].cb})]
         ELSE UNCHANGED <<job, stats>>
    /\ UNCHANGED <<maxQueue, maxWorkers, slots, closed, stopFlag, sub, nextJob,
                   shutCalls>>
    /\ UNCHANGED notPoolVars

NextPool ==
    \/ \E t \in Submitters :
         \/ SubmitEnter(t)
         \/ SubmitAcquire(t)
         \/ SubmitCount(t)
         \/ SubmitDispatch(t)
         \/ SubmitAddCallback(t)
    \/ \E j \in JobIds :
         \/ WorkerStart(j)
         \/ JobFinish(j)
         \/ FutureDone(j)
    \/ ShutdownFlag
    \/ ShutdownExecutor

-----------------------------------------------------------------------------
(* Properties of the ThreadManager *)

\* jobs that submit() has accepted (a slot is taken for them) and whose
\* callable has not yet finished
Outstanding == {j \in JobIds : job[j].st \in {"submitting", "queued", "running"}}

\* C2: with max_queue = N > 0, under any interleaving of submit calls and job
\* completions, the jobs accepted by submit and not yet completed never number
\* more than N.
C2_OutstandingAtMostMaxQueue ==
    Bounded => Cardinality(Outstanding) <= maxQueue

\* the ceiling is reached and a second submitter is blocked on the semaphore
C2_Witness ==
    /\ Bounded
    /\ Cardinality(Outstanding) = maxQueue
    /\ slots = 0
    /\ \E t \in Submitters : sub[t].pc = "acquire"
    /\ \E j \in JobIds : job[j].st = "done"

\* every job has ended (returned, raised, cancelled, or not accepted) and no
\* thread is inside submit()
PoolQuiescent ==
    /\ \A j \in JobIds :
         job[j].st \in {"unborn", "refused", "rejected", "cancelled", "done"}
    /\ \A t \in Submitters : sub[t].pc = "idle"

\* C22: every slot acquired by submit is released whatever the outcome of the
\* job (return, exception, cancellation before start, dispatch rejected by a
\* shut-down executor): once all jobs have ended, the free slots number
\* max_queue again.
C22_SlotsReleasedWhenJobsEnded ==
    (Bounded /\ PoolQuiescent) => slots = maxQueue

\* ThreadStats.in_flight: max(0, submitted - (completed + failed))
InFlight(st) ==
    LET d == st.tasks_submitted - (st.tasks_completed + st.tasks_failed) IN
      IF d > 0 THEN d ELSE 0

\* the jobs whose future is done and has run the done-callback
CountedJobs(o) ==
    {j \in JobIds : job[j].st \in {"done", "cancelled"} /\ job[j].cb /\ job[j].outcome = o}

StatsNeverExceedSubmitted ==
    stats.tasks_completed + stats.tasks_failed <= stats.tasks_submitted

StatsCountEachJobOnce ==
    /\ stats.tasks_completed = Cardinality(CountedJobs("ok"))
    /\ stats.tasks_failed = Cardinality(CountedJobs("err"))

StatsBalanceWhenQuiescent ==
    PoolQuiescent =>
      /\ stats.tasks_submitted = stats.tasks_completed + stats.tasks_failed
      /\ InFlight(stats) = 0

\* C24: completed + failed never exceeds submitted, each finished job is
\* counted exactly once (completed if it returned, failed if it raised), and
\* once every job has ended submitted = completed + failed, the in_flight
\* snapshot being 0.
C24_StatsAreConsistent ==
    /\ StatsNeverExceedSubmitted
    /\ StatsCountEachJobOnce
    /\ StatsBalanceWhenQuiescent

-----------------------------------------------------------------------------
(* The bulk helpers of ThreadManager: imap_unordered and map, called by one
   thread while the workers run the jobs *)

\* the thread that calls the bulk helper (and, through it, submit)
BulkThread == "t1"

\* a Future is done once it holds a result or an exception, or is cancelled
FutureIsDone(j) == job[j].st \in {"done", "cancelled"}

WindowAlwaysOpen == TRUE

\* len(inflight) < (workers + prefetch)
WindowOpen == Cardinality(inflight) < maxWorkers + prefetch

InitBulk ==
    /\ bulkMode \in {"imap", "map"}
    /\ bulkN \in 0..MaxJobs
    /\ prefetch \in 0..MaxPrefetch
    /\ bulkMode = "map" => prefetch = 0
    /\ bulkPc = "new"
    /\ pulled = 0
    /\ bulkJob = 0
    /\ inflight = {}
    /\ snap = {}
    /\ futs = <<>>
    /\ yielded = <<>>
    /\ bulkErr = "none"

\* the first next() on the generator of imap_unordered runs its body:
\* if self._closed: raise RuntimeError; ...; _fill()
ImapStart ==
    /\ bulkMode = "imap"
    /\ bulkPc = "new"
    /\ IF ClosedCheck(closed)
       THEN /\ bulkPc' = "raised"
            /\ bulkErr' = "RuntimeError"
       ELSE /\ bulkPc' = "fill"
            /\ UNCHANGED bulkErr
    /\ UNCHANGED <<bulkMode, bulkN, prefetch, pulled, bulkJob, inflight, snap,
                   futs, yielded>>
    /\ UNCHANGED notBulkVars

\* _fill(): while the window is open, item = next(it) and self.submit(fn, item);
\* when it ends, the for loop over as_completed goes on, or the while loop
\* takes a new as_completed(inflight), or the generator is exhausted
ImapFill ==
    /\ bulkMode = "imap"
    /\ bulkPc = "fill"
    /\ IF WindowOpen /\ pulled < bulkN
       THEN /\ pulled' = pulled + 1
            /\ bulkJob' = nextJob
            /\ bulkPc' = "call"
            /\ UNCHANGED snap
       ELSE /\ UNCHANGED <<pulled, bulkJob>>
            /\ IF snap # {}
               THEN /\ bulkPc' = "wait"
                    /\ UNCHANGED snap
               ELSE IF inflight # {}
               THEN /\ bulkPc' = "wait"
                    /\ snap' = inflight
               ELSE /\ bulkPc' = "done"
                    /\ UNCHANGED snap
    /\ UNCHANGED <<bulkMode, bulkN, prefetch, inflight, futs, yielded, bulkErr>>
    /\ UNCHANGED notBulkVars

RemoveNothing(fs, j) == fs

\* inflight.remove(done)
RemoveDone(fs, j) == fs \ {j}

\* for done in as_completed(inflight): inflight.remove(done);
\* yield done.result(), which raises the job's exception inside the generator
ImapYield ==
    /\ bulkMode = "imap"
    /\ bulkPc = "wait"
    /\ \E j \in snap :
         /\ FutureIsDone(j)
         /\ snap' = snap \ {j}
         /\ inflight' = RemoveDone(inflight, j)
         /\ IF job[j].outcome = "ok"
            THEN /\ yielded' = Append(yielded, j)
                 /\ bulkPc' = "fill"
                 /\ UNCHANGED bulkErr
            ELSE /\ bulkPc' = "raised"
                 /\ bulkErr' = "JobError"
                 /\ UNCHANGED yielded
    /\ UNCHANGED <<bulkMode, bulkN, prefetch, pulled, bulkJob, futs>>
    /\ UNCHANGED notBulkVars

\* map(preserve_order=True): futures_list = [self.submit(fn, item) for item in
\* iterable], one submit after the other
MapSubmitNext ==
    /\ bulkMode = "map"
    /\ bulkPc \in {"new", "fill"}
    /\ IF pulled < bulkN
       THEN /\ pulled' = pulled + 1
            /\ bulkJob' = nextJob
            /\ bulkPc' = "call"
       ELSE /\ bulkPc' = "wait"
            /\ UNCHANGED <<pulled, bulkJob>>
    /\ UNCHANGED <<bulkMode, bulkN, prefetch, inflight, snap, futs, yielded,
                   bulkErr>>
    /\ UNCHANGED notBulkVars

ResultSourceReversed(fs, k) == fs[Len(fs) - k + 1]

\* [f.result() for f in futures_list]: the k-th result comes from the k-th
\* future of the list
ResultSource(fs, k) == fs[k]

\* map(preserve_order=True): return [f.result() for f in futures_list]
MapCollect ==
    /\ bulkMode = "map"
    /\ bulkPc = "wait"
    /\ IF Len(yielded) = Len(futs)
       THEN /\ bulkPc' = "done"
            /\ UNCHANGED <<yielded, bulkErr>>
       ELSE LET j == ResultSource(futs, Len(yielded) + 1) IN
            /\ FutureIsDone(j)
            /\ IF job[j].outcome = "ok"
               THEN /\ yielded' = Append(yielded, j)
                    /\ UNCHANGED <<bulkPc, bulkErr>>
               ELSE /\ bulkPc' = "raised"
                    /\ bulkErr' = "JobError"
                    /\ UNCHANGED yielded
    /\ UNCHANGED <<bulkMode, bulkN, prefetch, pulled, bulkJob, inflight, snap,
                   futs>>
    /\ UNCHANGED notBulkVars

\* the helper calls self.submit(fn, item)
BulkSubmitEnter ==
    /\ bulkPc = "call"
    /\ nextJob = bulkJob
    /\ SubmitEnter(BulkThread)

\* self.submit returned the future, or raised RuntimeError (closed manager,
\* shut-down executor), which leaves the helper
BulkSubmitReturn ==
    /\ bulkPc = "call"
    /\ nextJob > bulkJob
    /\ sub[BulkThread].pc = "idle"
    /\ IF job[bulkJob].st \in {"refused", "rejected"}
       THEN /\ bulkPc' = "raised"
            /\ bulkErr' = "RuntimeError"
            /\ UNCHANGED <<inflight, futs>>
       ELSE /\ bulkPc' = "fill"
            /\ inflight' = IF bulkMode = "imap" THEN inflight \cup {bulkJob}
                                                ELSE inflight
            /\ futs' = Append(futs, bulkJob)
            /\ UNCHANGED bulkErr
    /\ UNCHANGED <<bulkMode, bulkN, prefetch, pulled, bulkJob, snap, yielded>>
    /\ UNCHANGED notBulkVars

\* map(preserve_order=True) alone with the pool, no shutdown
NextMap ==
    \/ MapSubmitNext
    \/ MapCollect
    \/ BulkSubmitEnter
    \/ BulkSubmitReturn
    \/ SubmitAcquire(BulkThread)
    \/ SubmitCount(BulkThread)
    \/ SubmitDispatch(BulkThread)
    \/ SubmitAddCallback(BulkThread)
    \/ \E j \in JobIds :
         \/ WorkerStart(j)
         \/ JobFinish(j)
         \/ FutureDone(j)

\* imap_unordered alone with the pool, no shutdown
NextImap ==
    \/ ImapStart
    \/ ImapFill
    \/ ImapYield
    \/ BulkSubmitEnter
    \/ BulkSubmitReturn
    \/ SubmitAcquire(BulkThread)
    \/ SubmitCount(BulkThread)
    \/ SubmitDispatch(BulkThread)
    \/ SubmitAddCallback(BulkThread)
    \/ \E j \in JobIds :
         \/ WorkerStart(j)
         \/ JobFinish(j)
         \/ FutureDone(j)

NextBulk ==
    \/ ImapStart
    \/ ImapFill
    \/ ImapYield
    \/ MapSubmitNext
    \/ MapCollect
    \/ BulkSubmitEnter
    \/ BulkSubmitReturn
    \/ SubmitAcquire(BulkThread)
    \/ SubmitCount(BulkThread)
    \/ SubmitDispatch(BulkThread)
    \/ SubmitAddCallback(BulkThread)
    \/ \E j \in JobIds :
         \/ WorkerStart(j)
         \/ JobFinish(j)
         \/ FutureDone(j)
    \/ ShutdownFlag
    \/ ShutdownExecutor

-----------------------------------------------------------------------------
(* Properties of the bulk helpers *)

Range(q) == {q[i] : i \in 1..Len(q)}

\* the helper has returned (the generator is exhausted) or raised
BulkEnded == bulkPc \in {"done", "raised"}

\* no job is waiting, running or about to be dispatched
AllJobsEnded ==
    \A j \in JobIds :
      job[j].st \in {"unborn", "refused", "rejected", "done", "cancelled"}

\* C13: a job's failure does not stop the pool (only shutdown closes the
\* manager or its executor), the failure is on the failing job's own future,
\* and the consumer of imap_unordered has received, when the call and all
\* jobs have ended, the result of every job of the call that succeeded.
C13_JobFailureIsContained ==
    /\ (closed \/ execShutdown) => shutCalls > 0
    /\ \A j \in JobIds :
         (job[j].st = "done" /\ job[j].outcome = "err") => j \notin Range(yielded)
    /\ (bulkMode = "imap" /\ BulkEnded /\ AllJobsEnded /\ shutCalls = 0) =>
         \A j \in Range(futs) : job[j].outcome = "ok" => j \in Range(yielded)

\* what a step may do once shutdown() has set self._closed: a further
\* shutdown() returns at once, a submit() that starts is refused and its job
\* is never handed to the executor, the first next() of imap_unordered
\* raises, and the manager stays closed
StepAfterShutdown ==
    closed =>
      /\ closed'
      /\ stopFlag'
      /\ shutCalls' # shutCalls =>
            UNCHANGED <<closed, stopFlag, execShutdown, shutPc, slots, stats,
                        job, sub, nextJob>>
      /\ nextJob' # nextJob =>
            /\ job'[nextJob].st = "refused"
            /\ UNCHANGED <<slots, stats, sub>>
      /\ \A j \in JobIds : job[j].st = "refused" => job'[j] = job[j]
      /\ (bulkMode = "imap" /\ bulkPc = "new" /\ bulkPc' # bulkPc) =>
            /\ bulkPc' = "raised"
            /\ bulkErr' = "RuntimeError"
            /\ UNCHANGED <<job, nextJob, inflight>>

\* C14: shutdown() sets the stop flag with the closed flag, a second call
\* changes nothing, and once the manager is closed every submit() and every
\* imap_unordered() that starts is rejected with a RuntimeError and hands no
\* job to the executor.
C14_ShutdownIsFinal == [](closed => stopFlag) /\ [][StepAfterShutdown]_vars

\* shutdown() was called twice and a submit() that came later was refused
C14_Witness ==
    /\ closed
    /\ stopFlag
    /\ shutCalls >= 2
    /\ \E j \in JobIds : job[j].st = "refused"
    /\ bulkErr = "RuntimeError"

\* the list map() returns: the i-th element is the result of the job that
\* was submitted for the i-th item
MapResultInOrder ==
    (bulkMode = "map" /\ bulkPc = "done") =>
      /\ Len(yielded) = bulkN
      /\ \A i \in 1..bulkN : yielded[i] = i /\ futs[i] = i

\* C15: map(preserve_order=True) returns the results in input order for any
\* completion order of the jobs and any input length, also one larger than
\* max_queue, and the call ends (returns, or raises a job's exception) once
\* the jobs end.
C15_MapPreservesOrder == []MapResultInOrder /\ <>BulkEnded

\* map() has returned for an input longer than the outstanding-task ceiling
C15_Witness ==
    /\ bulkMode = "map"
    /\ bulkPc = "done"
    /\ Bounded
    /\ bulkN > maxQueue
    /\ bulkN > maxWorkers
    /\ Len(yielded) = bulkN

\* the futures the call has submitted and not yet yielded
NotYielded == Range(futs) \ Range(yielded)

YieldedOnce ==
    /\ \A a, b \in 1..Len(yielded) : a # b => yielded[a] # yielded[b]
    /\ \A j \in Range(yielded) : j \in Range(futs) /\ job[j].outcome = "ok"

\* the call ends by raising only when a job raised; when it ends normally
\* there is one result for each of the bulkN input items
ImapEndsComplete ==
    /\ bulkPc = "raised" => \E j \in Range(futs) : job[j].outcome = "err"
    /\ bulkPc = "done" =>
         /\ Len(futs) = bulkN
         /\ Len(yielded) = bulkN
         /\ Range(yielded) = Range(futs)

\* C30: when no job raises, imap_unordered yields exactly one result per
\* input item, none lost and none duplicated, and then terminates, for any
\* input length, prefetch and completion order, also when max_queue is
\* smaller than workers + prefetch.
C30_ImapYieldsEachResultOnce ==
    /\ [](YieldedOnce /\ ImapEndsComplete)
    /\ <>BulkEnded

\* a complete run over more items than the window and than max_queue
C30_Witness ==
    /\ bulkMode = "imap"
    /\ bulkPc = "done"
    /\ Bounded
    /\ maxQueue < maxWorkers + prefetch
    /\ bulkN > maxWorkers + prefetch
    /\ Len(yielded) = bulkN
    /\ yielded # futs

-----------------------------------------------------------------------------
(* IngestWorker.run over a session inside transactional_session *)

Sources == {"s1", "s2"}

\* identity triplets (media_folder, identity_name, video_ext)
T1 == <<K000, "id1", "mp4">>
T2 == <<K000, "id2", "mp4">>
T0 == <<K000, "", "mp4">>          \* a plan item whose identity is empty
T9 == <<K001, "id9", "mp4">>       \* an item placed by an earlier run
Placeable == {T1, T2, T9}

\* sha256_of_file: the digest of a source's content
Sha256Of(src) == IF src = "s1" THEN "h1" ELSE "h2"

\* the plan items a planner may hand to the worker
ItemA == [src |-> "s1", triplet |-> T1, supported |-> TRUE]
ItemB == [src |-> "s2", triplet |-> T2, supported |-> TRUE]
ItemC == [src |-> "s2", triplet |-> T1, supported |-> TRUE]
ItemD == [src |-> "s1", triplet |-> T2, supported |-> FALSE]
ItemE == [src |-> "s2", triplet |-> T0, supported |-> TRUE]
PlanItems == {ItemA, ItemB, ItemC, ItemD, ItemE}

\* either every item is an IngestPlanItem dataclass (an injected planner), or
\* every item is a dict, which is what IngestPlanner.plan appends
Plans ==
    {[cls |-> c, items |-> q] : c \in {"IngestPlanItem", "dict"},
                                q \in SeqsUpTo(PlanItems, MaxPlan)}

\* a row of media_item; by is the plan index that inserted it (0: earlier run)
Row(t, h, i) == [triplet |-> t, sha |-> h, by |-> i]

\* stores left by earlier runs: T1 placed or not (or only its file left over),
\* and possibly an item T9 whose content equals that of source s2
InitialStores ==
    {[rows |-> r1 \cup r9, files |-> f1 \cup f9] :
        r1 \in {{}, {Row(T1, "h0", 0)}},
        f1 \in {{}, {T1}},
        r9 \in {{}, {Row(T9, "h2", 0)}},
        f9 \in {{}, {T9}}}

\* BaseReport.add_error(self, subject, message): its positional parameters
AddErrorParams == 2

\* the arguments of every rpt.add_error(f"...") call in IngestWorker.run
WorkerAddErrorArgs == 1

\* a call of rpt.add_error with nargs arguments: TypeError unless they match
AddErrorCall(r, nargs, msg) ==
    IF nargs = AddErrorParams
    THEN [raised |-> FALSE, rpt |-> [r EXCEPT !.error_details = Append(@, msg)]]
    ELSE [raised |-> TRUE, rpt |-> r]

\* rows a SELECT of this session sees
Visible == dbCommitted \cup txFlushed

\* create_media_item: select count(*) where the triplet matches
TripletExists(t) == \E r \in Visible : r.triplet = t

\* the INSERT of a flush: uq_mediaitem_folder_identity_ext and the unique
\* hash_sha256 column reject a row
InsertRejected(row) ==
    \E r \in Visible : r.triplet = row.triplet \/ r.sha = row.sha

CurItem == plan.items[idx]

InitIngest ==
    /\ plan \in Plans
    /\ dryRun \in BOOLEAN
    /\ \E st \in InitialStores :
         /\ (\A r \in st.rows : r.triplet \in st.files)
         /\ dbCommitted = st.rows
         /\ destFile = [t \in Placeable |-> IF t \in st.files THEN "old" ELSE "none"]
         /\ itemDirs = st.files
    /\ txFlushed = {}
    /\ pending = {}
    /\ savepoint = FALSE
    /\ srcExists = [f \in Sources |-> TRUE]
    /\ ingPc = "init"
    /\ idx = 1
    /\ rpt = [started |-> FALSE, finished |-> FALSE, planned_items |-> <<>>,
              created |-> 0, moved |-> 0, errors |-> 0, error_details |-> <<>>]
    /\ ingErr = "none"
    /\ movedItems = {}
    /\ failedAt = [i \in 1..Len(plan.items) |-> "none"]

DryRunNeverReturns(dry) == FALSE

\* if dry_run: rpt.stop(); return rpt
DryRunReturns(dry) == dry

\* run(): rpt.start(); empty file list: return; plan; dry_run: return
RunStart ==
    /\ ingPc = "init"
    /\ IF Len(plan.items) = 0
       THEN /\ rpt' = [rpt EXCEPT !.started = TRUE, !.finished = TRUE]
            /\ ingPc' = "returned"
       ELSE IF DryRunReturns(dryRun)
       THEN /\ rpt' = [rpt EXCEPT !.started = TRUE, !.finished = TRUE,
                                  !.planned_items = plan.items]
            /\ ingPc' = "returned"
       ELSE /\ rpt' = [rpt EXCEPT !.started = TRUE, !.planned_items = plan.items]
            /\ ingPc' = "check"
    /\ UNCHANGED <<plan, dryRun, dbCommitted, txFlushed, pending, savepoint,
                   srcExists, destFile, itemDirs, idx, ingErr, movedItems,
                   failedAt>>
    /\ UNCHANGED notIngestVars

ErrorThenFallThrough(step) ==
    /\ failedAt' = [failedAt EXCEPT ![idx] = step]
    /\ ingPc' = "nested"
    /\ UNCHANGED <<rpt, idx, ingErr>>

\* rpt.add_error(...) followed by continue, for the step that failed: the
\* TypeError of a call with the wrong number of arguments leaves run()
ErrorThenContinue(step) ==
    LET res == AddErrorCall(rpt, WorkerAddErrorArgs, <<step, idx>>) IN
      /\ rpt' = res.rpt
      /\ failedAt' = [failedAt EXCEPT ![idx] = step]
      /\ IF res.raised
         THEN /\ ingPc' = "raised"
              /\ ingErr' = "TypeError"
              /\ UNCHANGED idx
         ELSE /\ ingPc' = "check"
              /\ idx' = idx + 1
              /\ UNCHANGED ingErr

\* the head of the loop: isinstance check, supported, identity
ItemCheck ==
    /\ ingPc = "check"
    /\ idx <= Len(plan.items)
    /\ IF plan.cls # "IngestPlanItem"
       THEN ErrorThenContinue("type")
       ELSE IF ~CurItem.supported
       THEN /\ idx' = idx + 1
            /\ UNCHANGED <<ingPc, rpt, ingErr, failedAt>>
       ELSE IF CurItem.triplet[2] = ""
       THEN ErrorThenContinue("identity")
       ELSE /\ ingPc' = "probe"
            /\ UNCHANGED <<idx, rpt, ingErr, failedAt>>
    /\ UNCHANGED <<plan, dryRun, dbCommitted, txFlushed, pending, savepoint,
                   srcExists, destFile, itemDirs, movedItems>>
    /\ UNCHANGED notIngestVars

\* 1) probe the source; ffprobe fails on a missing file, and may fail anyway
Probe ==
    /\ ingPc = "probe"
    /\ \E ok \in BOOLEAN :
         IF ok /\ srcExists[CurItem.src]
         THEN /\ ingPc' = "hash"
              /\ UNCHANGED <<idx, rpt, ingErr, failedAt>>
         ELSE ErrorThenContinue("probe")
    /\ UNCHANGED <<plan, dryRun, dbCommitted, txFlushed, pending, savepoint,
                   srcExists, destFile, itemDirs, movedItems>>
    /\ UNCHANGED notIngestVars

\* 2) src.stat() and sha256_of_file(src)
Hash ==
    /\ ingPc = "hash"
    /\ \E ok \in BOOLEAN :
         IF ok /\ srcExists[CurItem.src]
         THEN /\ ingPc' = "nested"
              /\ UNCHANGED <<idx, rpt, ingErr, failedAt>>
         ELSE ErrorThenContinue("hash")
    /\ UNCHANGED <<plan, dryRun, dbCommitted, txFlushed, pending, savepoint,
                   srcExists, destFile, itemDirs, movedItems>>
    /\ UNCHANGED notIngestVars

\* with self.db.begin_nested(): pending state is flushed, SAVEPOINT
BeginNested ==
    /\ ingPc = "nested"
    /\ txFlushed' = txFlushed \cup pending
    /\ pending' = {}
    /\ savepoint' = TRUE
    /\ ingPc' = "insert"
    /\ UNCHANGED <<plan, dryRun, dbCommitted, srcExists, destFile, itemDirs, idx,
                   rpt, ingErr, movedItems, failedAt>>
    /\ UNCHANGED notIngestVars

\* the except branch of the unit: the with block has rolled the savepoint
\* back (rows added inside it are expunged), self.db.rollback() rolls back
\* the session's whole transaction, then rpt.add_error(...); continue
UnitFailed(step) ==
    /\ pending' = {}
    /\ savepoint' = FALSE
    /\ txFlushed' = {}
    /\ ErrorThenContinue(step)

\* 3) self.repo.create_media_item(mi): ValueError when the triplet exists,
\* else self.db.add(orm) without a flush
Insert ==
    /\ ingPc = "insert"
    /\ IF TripletExists(CurItem.triplet)
       THEN UnitFailed("insert")
       ELSE /\ pending' = pending \cup
                  {Row(CurItem.triplet, Sha256Of(CurItem.src), idx)}
            /\ ingPc' = "mkdir"
            /\ UNCHANGED <<txFlushed, savepoint, idx, rpt, ingErr, failedAt>>
    /\ UNCHANGED <<plan, dryRun, dbCommitted, srcExists, destFile, itemDirs,
                   movedItems>>
    /\ UNCHANGED notIngestVars

\* 4) ensure_item_dir: mkdir(parents=True, exist_ok=True), which may fail
EnsureDir ==
    /\ ingPc = "mkdir"
    /\ \E ok \in BOOLEAN :
         IF ok
         THEN /\ itemDirs' = itemDirs \cup {CurItem.triplet}
              /\ ingPc' = "move"
              /\ UNCHANGED <<pending, txFlushed, savepoint, idx, rpt, ingErr,
                                 failedAt>>
         ELSE /\ UnitFailed("mkdir")
              /\ UNCHANGED itemDirs
    /\ UNCHANGED <<plan, dryRun, dbCommitted, srcExists, destFile, movedItems>>
    /\ UNCHANGED notIngestVars

\* move_into_item_dir: unlink an existing destination, then shutil.move
MoveIntoItemDir(t, src, outcome) ==
    IF outcome = "unlink_raises"
    THEN [moved |-> FALSE, dest |-> destFile[t]]
    ELSE IF outcome = "move_raises" \/ ~srcExists[src]
    THEN [moved |-> FALSE, dest |-> "none"]
    ELSE [moved |-> TRUE, dest |-> src]

\* 4) move_into_item_dir(src, item_dir, identity, ext)
Move ==
    /\ ingPc = "move"
    /\ \E outcome \in {"ok", "move_raises", "unlink_raises"} :
         /\ outcome = "unlink_raises" => destFile[CurItem.triplet] # "none"
         /\ LET m == MoveIntoItemDir(CurItem.triplet, CurItem.src, outcome) IN
              /\ destFile' = [destFile EXCEPT ![CurItem.triplet] = m.dest]
              /\ IF m.moved
                 THEN /\ srcExists' = [srcExists EXCEPT ![CurItem.src] = FALSE]
                      /\ movedItems' = movedItems \cup {idx}
                      /\ ingPc' = "release"
                      /\ UNCHANGED <<pending, txFlushed, savepoint, idx, rpt, ingErr,
                                 failedAt>>
                 ELSE /\ UnitFailed("move")
                      /\ UNCHANGED <<srcExists, movedItems>>
    /\ UNCHANGED <<plan, dryRun, dbCommitted, itemDirs>>
    /\ UNCHANGED notIngestVars

\* the with block ends: the nested transaction flushes the pending row (the
\* INSERT may raise IntegrityError) and releases the savepoint; then
\* rpt.created += 1; rpt.moved += 1
NestedRelease ==
    /\ ingPc = "release"
    /\ IF \E row \in pending : InsertRejected(row)
       THEN UnitFailed("flush")
       ELSE /\ txFlushed' = txFlushed \cup pending
            /\ pending' = {}
            /\ savepoint' = FALSE
            /\ rpt' = [rpt EXCEPT !.created = @ + 1, !.moved = @ + 1]
            /\ idx' = idx + 1
            /\ ingPc' = "check"
            /\ UNCHANGED <<ingErr, failedAt>>
    /\ UNCHANGED <<plan, dryRun, dbCommitted, srcExists, destFile, itemDirs,
                   movedItems>>
    /\ UNCHANGED notIngestVars

\* the loop is over: rpt.stop(); return rpt
RunReturn ==
    /\ ingPc = "check"
    /\ idx > Len(plan.items)
    /\ rpt' = [rpt EXCEPT !.finished = TRUE]
    /\ ingPc' = "returned"
    /\ UNCHANGED <<plan, dryRun, dbCommitted, txFlushed, pending, savepoint,
                   srcExists, destFile, itemDirs, idx, ingErr, movedItems,
                   failedAt>>
    /\ UNCHANGED notIngestVars

\* transactional_session: with db.begin() commits on normal exit
CallerCommit ==
    /\ ingPc = "returned"
    /\ dbCommitted' = dbCommitted \cup txFlushed \cup pending
    /\ txFlushed' = {}
    /\ pending' = {}
    /\ ingPc' = "committed"
    /\ UNCHANGED <<plan, dryRun, savepoint, srcExists, destFile, itemDirs, idx,
                   rpt, ingErr, movedItems, failedAt>>
    /\ UNCHANGED notIngestVars

\* transactional_session: with db.begin() rolls back when an exception
\* bubbles out
CallerRollback ==
    /\ ingPc = "raised"
    /\ txFlushed' = {}
    /\ pending' = {}
    /\ ingPc' = "rolledback"
    /\ UNCHANGED <<plan, dryRun, dbCommitted, savepoint, srcExists, destFile,
                   itemDirs, idx, rpt, ingErr, movedItems, failedAt>>
    /\ UNCHANGED notIngestVars

NextIngest ==
    \/ RunStart
    \/ ItemCheck
    \/ Probe
    \/ Hash
    \/ BeginNested
    \/ Insert
    \/ EnsureDir
    \/ Move
    \/ NestedRelease
    \/ RunReturn
    \/ CallerCommit
    \/ CallerRollback

-----------------------------------------------------------------------------
(* Properties of IngestWorker.run *)

\* the run and the transaction of its caller are over
EndOfRun == ingPc \in {"committed", "rolledback"}

PlanIndexes == 1..Len(plan.items)

\* the plan items for which a step of run() failed
ErroredItems == {i \in PlanIndexes : failedAt[i] # "none"}

\* the plan items that went through rpt.created += 1
CreatedItems == movedItems \ ErroredItems

\* the committed rows a plan item inserted
RowsBy(i) == {r \in dbCommitted : r.by = i}

\* the failure of plan item i is in the report's error_details
Recorded(i) ==
    \E k \in 1..Len(rpt.error_details) : rpt.error_details[k][2] = i

\* C1: after a run, every item counted as created has its destination file
\* and a persisting row, every item that errored has no row, and a row of
\* the run persists exactly for the items whose file was moved.
C1_PlacementIsAtomic ==
    EndOfRun =>
      \A i \in PlanIndexes :
        /\ i \in CreatedItems =>
             /\ destFile[plan.items[i].triplet] = plan.items[i].src
             /\ RowsBy(i) # {}
        /\ i \in ErroredItems => RowsBy(i) = {}
        /\ (RowsBy(i) # {}) <=> (i \in movedItems)

\* C3: no exception propagates out of run; when run has returned, every
\* failure of an item is recorded in error_details and the loop has gone
\* through every plan item.
C3_RunAlwaysReturnsReport ==
    /\ ingPc # "raised"
    /\ ingPc = "returned" =>
         /\ rpt.finished
         /\ \A i \in ErroredItems : Recorded(i)
         /\ (~dryRun => idx > Len(plan.items))

\* C7: an item whose triplet already has a row ends with the conflict
\* recorded in the report, exactly one row for the triplet in the store, its
\* file not moved and the file already placed at the destination unchanged.
C7_ConflictIsRecordedAndHarmless ==
    EndOfRun =>
      \A i \in PlanIndexes :
        failedAt[i] = "insert" =>
          /\ Recorded(i)
          /\ Cardinality({r \in dbCommitted :
                            r.triplet = plan.items[i].triplet}) = 1
          /\ i \notin movedItems
          /\ destFile[plan.items[i].triplet] \notin {"none", plan.items[i].src}

\* what a dry run may look like at any moment: it is before or after its
\* only step, the session holds nothing, no file has moved, and the report
\* it returned carries the plan and no error
DryRunState ==
    /\ ingPc \in {"init", "returned", "committed"}
    /\ txFlushed = {}
    /\ pending = {}
    /\ movedItems = {}
    /\ \A f \in Sources : srcExists[f]
    /\ \A i \in PlanIndexes : failedAt[i] = "none"
    /\ ingPc # "init" =>
         /\ rpt.finished
         /\ rpt.planned_items = plan.items
         /\ rpt.error_details = <<>>

\* a step of a dry run leaves the store and the files as they are
DryRunStep ==
    dryRun => UNCHANGED <<dbCommitted, srcExists, destFile, itemDirs>>

C9_MoveFailureReport ==
    (EndOfRun /\ Len(plan.items) = 1 /\ failedAt[1] = "move") =>
      /\ ingPc = "committed"
      /\ rpt.created = 0
      /\ rpt.moved = 0
      /\ rpt.errors = 1
      /\ RowsBy(1) = {}

\* the plan items whose record the store rejected: ValueError of
\* create_media_item, or IntegrityError of the INSERT
RejectedItems == {i \in PlanIndexes : failedAt[i] \in {"insert", "flush"}}

\* C19: the insert is flushed before the move is attempted, so whenever the
\* store rejects an item's record, the file of that item has not been moved
\* and its source is still at its incoming path.
C19_RejectionPrecedesMove ==
    /\ ingPc = "move" => \E r \in txFlushed : r.by = idx
    /\ \A i \in RejectedItems :
         /\ i \notin movedItems
         /\ srcExists[plan.items[i].src]

\* the plan items whose insert+move unit failed (the except of the unit)
FailedUnits ==
    {k \in PlanIndexes : failedAt[k] \in {"insert", "mkdir", "move", "flush"}}

\* C20: when the unit of plan item k fails, the rows inserted for the items
\* before k that were created are still in the transaction (or committed),
\* and their files stay placed.
C20_RollbackSpansOneItem ==
    \A k \in FailedUnits :
      \A i \in CreatedItems :
        i < k =>
          /\ \E r \in Visible : r.by = i
          /\ destFile[plan.items[i].triplet] = plan.items[i].src

\* the plan items whose probe, or stat/hash, failed
UnreadableItems == {i \in PlanIndexes : failedAt[i] \in {"probe", "hash"}}

\* the step in which the probe or the stat/hash of the current item fails
ProbeOrHashFails ==
    /\ idx \in PlanIndexes
    /\ failedAt[idx] = "none"
    /\ failedAt'[idx] \in {"probe", "hash"}

\* C21: an item whose probe or stat/hash fails has no effects: the failing
\* step changes neither the store, nor the directories, nor any file, nor the
\* created and moved counters, and the item never gets a row or a move.
C21_UnreadableItemHasNoEffects ==
    /\ [](\A i \in UnreadableItems :
            /\ i \notin movedItems
            /\ \A r \in pending \cup Visible : r.by # i)
    /\ [][ProbeOrHashFails =>
            /\ UNCHANGED <<dbCommitted, txFlushed, pending, srcExists, destFile,
                           itemDirs, movedItems>>
            /\ rpt'.created = rpt.created
            /\ rpt'.moved = rpt.moved]_vars

C21_Witness ==
    /\ Len(plan.items) = 2
    /\ 1 \in movedItems
    /\ failedAt[2] = "hash"
    /\ srcExists[plan.items[2].src]
    /\ ingPc = "rolledback"

\* the step in which move_into_item_dir raises for the current item
MoveFails ==
    /\ idx \in PlanIndexes
    /\ failedAt[idx] = "none"
    /\ failedAt'[idx] = "move"

\* C29: when move_into_item_dir fails, a file that was at the destination
\* path is still there with its previous content.
C29_FailedMoveKeepsDestination ==
    [][MoveFails => destFile'[CurItem.triplet] = destFile[CurItem.triplet]]_vars

-----------------------------------------------------------------------------
(* The layout on disk: the path a placed file is moved to, and the path the
   store row is resolved to *)

\* a str is a sequence of characters; a bucket's base-36 digits as characters
DigitChar ==
    <<"0", "1", "2", "3", "4", "5", "6", "7", "8", "9", "a", "b", "c", "d",
      "e", "f", "g", "h", "i", "j", "k", "l", "m", "n", "o", "p", "q", "r",
      "s", "t", "u", "v", "w", "x", "y", "z">>
BucketStr(b) == [i \in 1..Len(b) |-> DigitChar[b[i] + 1]]

\* an identity or an extension of the model, as a str
Str(a) == IF a = "" THEN <<>> ELSE <<a>>

\* the str fields of a triplet
FolderOf(t) == BucketStr(t[1])
NameOf(t) == Str(t[2])
VideoExtOf(t) == Str(t[3])

\* str.lstrip(".")
RECURSIVE LStripDot(_)
LStripDot(s) ==
    IF s # <<>> /\ Head(s) = "." THEN LStripDot(Tail(s)) ELSE s

\* the parts of a str between its "/" characters, empty parts dropped
RECURSIVE PathParts(_, _)
PathParts(s, cur) ==
    IF s = <<>> THEN (IF cur = <<>> THEN <<>> ELSE <<cur>>)
    ELSE IF Head(s) = "/"
    THEN (IF cur = <<>> THEN <<>> ELSE <<cur>>) \o PathParts(Tail(s), <<>>)
    ELSE PathParts(Tail(s), Append(cur, Head(s)))

\* Path / str: a Path is the sequence of its parts
PathJoin(p, s) == p \o PathParts(s, <<>>)

\* cfg.media_root
MediaRoot == <<<<"media_root">>>>

\* ensure_item_dir: Path(media_root) / bucket / identity
ItemDirPath(root, bucket, identity) == PathJoin(PathJoin(root, bucket), identity)

\* move_into_item_dir: item_dir / (f"{identity}.{ext}" if ext else identity)
DestPath(item_dir, identity, ext) ==
    LET e == LStripDot(ext)
        dest_name == IF e # <<>> THEN identity \o <<".">> \o e ELSE identity
    IN PathJoin(item_dir, dest_name)

\* where IngestWorker.run moves the file of a plan item
MovedTo(it) ==
    DestPath(ItemDirPath(MediaRoot, FolderOf(it.triplet), NameOf(it.triplet)),
             NameOf(it.triplet), VideoExtOf(it.triplet))

\* MediaIdentity.video_filename, rel_dir, video_rel_path, assets_rel_dir
VideoFilename(t) == NameOf(t) \o <<".">> \o VideoExtOf(t)
RelDir(t) == FolderOf(t) \o <<"/">> \o NameOf(t)
VideoRelPath(t) == RelDir(t) \o <<"/">> \o VideoFilename(t)
AssetsRelDir(t) == RelDir(t) \o <<"/">> \o <<"assets">>

\* find_video_candidates_for_thumbs: file_name = f"{name}.{ext}"
CandidateFileNameBare(name, ext) == name \o ext
CandidateFileName(name, ext) == name \o <<".">> \o ext

\* find_video_candidates_for_thumbs: (rel_dir, file_name) of a row
CandidateOf(row) ==
    [rel_dir |-> FolderOf(row.triplet) \o <<"/">> \o NameOf(row.triplet),
     file_name |-> CandidateFileName(NameOf(row.triplet), VideoExtOf(row.triplet))]

\* process_one: item_dir, video_path and assets_dir of a candidate
ProcessOnePaths(c) ==
    LET item_dir == PathJoin(MediaRoot, c.rel_dir) IN
      [item_dir |-> item_dir,
       video_path |-> PathJoin(item_dir, c.file_name),
       assets_dir |-> PathJoin(item_dir, <<"assets">>)]

\* the rows of this run, of items whose file was moved and whose unit ended
PlacedRows == {r \in Visible : r.by \in CreatedItems}

-----------------------------------------------------------------------------
(* Media assets of one media item: the upsert endpoint and thumbnail
   generation (ThumbService.run over ThumbWorker.process_one) *)

\* the AssetKind values thumbnail generation writes
Kinds == {"thumb", "contact_sheet"}

Formats == {"jpg", "png"}

\* widths and heights an image can have
Sizes == {1, 2}

\* process_one: rel_path = "assets/" + ("thumb." | "contact_sheet.") + format
RelPath(kind, fmt) ==
    IF kind = "thumb"
    THEN (IF fmt = "jpg" THEN "assets/thumb.jpg" ELSE "assets/thumb.png")
    ELSE (IF fmt = "jpg" THEN "assets/contact_sheet.jpg"
                         ELSE "assets/contact_sheet.png")

\* a row of media_asset of the item; NoAsset stands for no row
AssetRow(kind, p, w, h) ==
    [kind |-> kind, rel_path |-> p, width |-> w, height |-> h]
NoAsset == AssetRow("none", "", 0, 0)

\* the payloads of PUT /upsert
AssetPayloads ==
    {AssetRow(k, RelPath(k, f), s, s) : k \in Kinds, f \in Formats, s \in Sizes}

\* the names media_asset_repo.py defines at module level
AssetRepoExports == {"SqlAlchemyMediaAssetRepo"}

\* the methods of SqlAlchemyMediaAssetRepo
AssetRepoMethods ==
    {"get", "list_by_media", "get_by_item_kind", "create", "upsert", "update",
     "delete"}

\* a session over the media_asset rows of the item; autoflush is off, so a
\* SELECT sees the rows and never the pending objects
OpenSession(rows) == [rows |-> rows, pending |-> <<>>, err |-> "none"]

\* SqlAlchemyMediaAssetRepo.get_by_item_kind
GetByItemKind(s, kind) ==
    IF \E r \in s.rows : r.kind = kind
    THEN CHOOSE r \in s.rows : r.kind = kind
    ELSE NoAsset

\* SqlAlchemyMediaAssetRepo.create: self.db.add(obj), no flush
Create(s, row) == [s EXCEPT !.pending = Append(@, row)]

\* SqlAlchemyMediaAssetRepo.upsert
Upsert(s, row) ==
    LET existing == GetByItemKind(s, row.kind) IN
      IF existing # NoAsset
      THEN [s EXCEPT !.rows = (@ \ {existing}) \cup {row}]
      ELSE Create(s, row)

\* Session.flush: INSERT the pending objects; uq_media_asset_item_kind
\* rejects a second row of a kind
Flush(s) ==
    IF \E i \in 1..Len(s.pending) :
         \/ \E r \in s.rows : r.kind = s.pending[i].kind
         \/ \E j \in 1..(i - 1) : s.pending[j].kind = s.pending[i].kind
    THEN [s EXCEPT !.pending = <<>>, !.err = "IntegrityError"]
    ELSE [s EXCEPT !.rows = @ \cup {s.pending[i] : i \in 1..Len(s.pending)},
                   !.pending = <<>>]

\* the rows in the store once the transaction of the session has ended
Committed(before, s) == IF s.err = "none" THEN s.rows ELSE before

\* what one thumbnail generation run is given and meets
ThumbEnvs ==
    [regenerate : BOOLEAN, include_missing : BOOLEAN, video_exists : BOOLEAN,
     thumb_gen : {"ok", "raises"}, sheet_gen : {"ok", "none", "raises"},
     thumb_format : Formats, size : Sizes]

NoThumbEnv ==
    [regenerate |-> FALSE, include_missing |-> FALSE, video_exists |-> FALSE,
     thumb_gen |-> "raises", sheet_gen |-> "raises", thumb_format |-> "jpg",
     size |-> 1]

\* Settings.collage_format, which run() resolves when none is requested
CollageFormat == "png"

\* the row process_one passes to upsert_asset for a kind
ThumbRowFor(kind, env) ==
    AssetRow(kind,
             RelPath(kind, IF kind = "thumb" THEN env.thumb_format
                                             ELSE CollageFormat),
             env.size, env.size)

\* self.w.upsert_asset(...): AttributeError unless the repo has the method
CallUpsertAsset(s, row) ==
    IF "upsert_asset" \in AssetRepoMethods
    THEN [raised |-> FALSE, sess |-> Upsert(s, row)]
    ELSE [raised |-> TRUE, sess |-> s]

Counters(g, u, sk, e) ==
    [generated |-> g, updated |-> u, skipped |-> sk, errors |-> e]

\* ThumbWorker.process_one: the counters it returns, the session it leaves
\* and the asset files it has written
ProcessOne(s, env) ==
    IF ~env.video_exists /\ ~env.include_missing
    THEN [out |-> Counters(0, 0, 1, 0), sess |-> s, wrote |-> {}]
    ELSE IF env.thumb_gen = "raises" \/ ~env.video_exists
    THEN [out |-> Counters(0, 0, 0, 1), sess |-> s, wrote |-> {}]
    ELSE LET c1 == CallUpsertAsset(s, ThumbRowFor("thumb", env)) IN
      IF c1.raised
      THEN [out |-> Counters(0, 0, 0, 1), sess |-> s, wrote |-> {"thumb"}]
      ELSE IF env.sheet_gen = "raises"
      THEN [out |-> Counters(1, 1, 0, 1), sess |-> c1.sess, wrote |-> {"thumb"}]
      ELSE IF env.sheet_gen = "none"
      THEN [out |-> Counters(1, 1, 1, 0), sess |-> c1.sess, wrote |-> {"thumb"}]
      ELSE LET c2 == CallUpsertAsset(c1.sess, ThumbRowFor("contact_sheet", env)) IN
        IF c2.raised
        THEN [out |-> Counters(1, 1, 0, 1), sess |-> c1.sess, wrote |-> Kinds]
        ELSE [out |-> Counters(2, 2, 0, 0), sess |-> c2.sess, wrote |-> Kinds]

\* MediaQueryRepo.find_video_candidates_for_thumbs for the item
IsCandidate(rows, regenerate) ==
    regenerate \/ \E k \in Kinds : \A r \in rows : r.kind # k

\* ThumbService.run for the item, with the commit of its caller
ThumbServiceRun(rows, env) ==
    IF ~IsCandidate(rows, env.regenerate)
    THEN [err |-> "none", scanned |-> 0, out |-> Counters(0, 0, 0, 0),
          rows |-> rows, wrote |-> {}]
    ELSE LET po == ProcessOne(OpenSession(rows), env) IN
      [err |-> "none", scanned |-> 1, out |-> po.out,
       rows |-> Committed(rows, Flush(po.sess)), wrote |-> po.wrote]

\* import hexmedia.services.ingest.thumb_service, which imports
\* thumb_worker and with it SqlAlchemyMediaAssetWriter from media_asset_repo
ImportThumbService ==
    IF "SqlAlchemyMediaAssetWriter" \in AssetRepoExports
    THEN "none"
    ELSE "ImportError"

InitThumb ==
    /\ assetRows \in {{}, {AssetRow("thumb", RelPath("thumb", "jpg"), 1, 1)}}
    /\ lastUpsert = [k \in Kinds |-> NoAsset]
    /\ assetLastOp = "none"
    /\ thumbRuns = 0
    /\ thumbRegenAll = TRUE
    /\ thumbEnv = NoThumbEnv
    /\ thumbFiles = [k \in Kinds |-> 0]
    /\ thumbRep = [err |-> "none", scanned |-> 0, out |-> Counters(0, 0, 0, 0)]

\* PUT /assets/upsert in its transactional_session: repo.upsert, db.flush,
\* commit on exit
UpsertAssetEndpoint ==
    /\ \E payload \in AssetPayloads :
         LET s == Flush(Upsert(OpenSession(assetRows), payload)) IN
           /\ assetRows' = Committed(assetRows, s)
           /\ lastUpsert' = [lastUpsert EXCEPT ![payload.kind] = payload]
    /\ assetLastOp' = "upsert"
    /\ UNCHANGED <<thumbRuns, thumbRegenAll, thumbEnv, thumbFiles, thumbRep>>
    /\ UNCHANGED notThumbVars

\* one thumbnail generation for the item: load the service, ThumbService.run
ThumbGenerate ==
    /\ thumbRuns < MaxThumbRuns
    /\ \E env \in ThumbEnvs :
         /\ thumbEnv' = env
         /\ thumbRegenAll' = (thumbRegenAll /\ env.regenerate)
         /\ IF ImportThumbService # "none"
            THEN /\ thumbRep' = [err |-> ImportThumbService, scanned |-> 0,
                                 out |-> Counters(0, 0, 0, 0)]
                 /\ UNCHANGED <<assetRows, thumbFiles>>
            ELSE LET run == ThumbServiceRun(assetRows, env) IN
                 /\ thumbRep' = [err |-> run.err, scanned |-> run.scanned,
                                 out |-> run.out]
                 /\ assetRows' = run.rows
                 /\ thumbFiles' = [k \in Kinds |->
                                      IF k \in run.wrote THEN thumbRuns + 1
                                                         ELSE thumbFiles[k]]
    /\ thumbRuns' = thumbRuns + 1
    /\ assetLastOp' = "thumb"
    /\ UNCHANGED lastUpsert
    /\ UNCHANGED notThumbVars

NextThumb ==
    \/ UpsertAssetEndpoint
    \/ ThumbGenerate

-----------------------------------------------------------------------------
(* Properties of the media assets *)

RowsOfKind(k) == {r \in assetRows : r.kind = k}

\* the latest run was given regenerate and its ffmpeg steps succeeded
LatestRunGenerated ==
    /\ thumbEnv.regenerate
    /\ thumbEnv.video_exists
    /\ thumbEnv.thumb_gen = "ok"
    /\ thumbEnv.sheet_gen = "ok"

\* C8: the store holds at most one asset row per kind, a kind that was
\* upserted holds the values of its latest upsert, and after two thumbnail
\* generations with regenerate there is exactly one row per kind, holding
\* the values of the second generation.
C8_OneAssetPerKindLatestValues ==
    /\ \A k \in Kinds : Cardinality(RowsOfKind(k)) <= 1
    /\ assetLastOp = "upsert" =>
         \A k \in Kinds : lastUpsert[k] # NoAsset => RowsOfKind(k) = {lastUpsert[k]}
    /\ (assetLastOp = "thumb" /\ thumbRuns = 2 /\ thumbRegenAll
          /\ LatestRunGenerated) =>
         \A k \in Kinds : RowsOfKind(k) = {ThumbRowFor(k, thumbEnv)}

\* the latest run had the item as a candidate with its video present, and
\* its thumbnail step failed: ffmpeg raised, or the upsert of the row did
LatestRunThumbFailed ==
    /\ assetLastOp = "thumb"
    /\ thumbEnv.regenerate
    /\ thumbEnv.video_exists
    /\ \/ thumbEnv.thumb_gen = "raises"
       \/ CallUpsertAsset(OpenSession(assetRows), ThumbRowFor("thumb", thumbEnv)).raised

\* C27: when the thumbnail step of process_one fails, the item returns
\* errors = 1 with generated = 0, updated = 0 and skipped = 0, and the run
\* has written no collage.
C27_ThumbFailureShortCircuits ==
    LatestRunThumbFailed =>
      /\ thumbRep.out = Counters(0, 0, 0, 1)
      /\ thumbFiles["contact_sheet"] # thumbRuns

-----------------------------------------------------------------------------
(* ThumbService.run over several candidates: the worker pool it creates and
   the report it aggregates *)

\* getattr(self.cfg, "max_thumb_workers", 4) or 4: Settings names its field
\* MAX_THUMB_WORKERS, which this lower-case lookup does not read
MaxThumbWorkersCfg == 4

\* the workers argument: None, or an int
NoneWorkers == [none |-> TRUE, n |-> 0]
WorkerRequests ==
    {NoneWorkers} \cup {[none |-> FALSE, n |-> k] : k \in (0 - 1)..(MaxThumbWorkersCfg + 1)}

IntMax(a, b) == IF a >= b THEN a ELSE b

\* max_workers = max(1, min(int(workers or 1), max_workers_cfg))
WorkerCount(w, cfgMax) ==
    LET asked == IF w.none \/ w.n = 0 THEN 1 ELSE w.n IN
      IntMax(1, IntMin({asked, cfgMax}))

\* what process_one does for one candidate: it returns its counters, or an
\* exception leaves it
JobReturns(c) == [raises |-> FALSE, out |-> c]
JobRaises == [raises |-> TRUE, out |-> Counters(0, 0, 0, 0)]
CandOutcomes ==
    {JobReturns(Counters(2, 2, 0, 0)), JobReturns(Counters(0, 0, 1, 0)),
     JobReturns(Counters(1, 1, 0, 1)), JobRaises}

EmptyRunReport ==
    [err |-> "none", scanned |-> 0, generated |-> 0, updated |-> 0,
     skipped |-> 0, errors |-> 0, error_details |-> <<>>, pool |-> 0,
     scopes |-> <<>>]

\* the body of `for fut in as_completed(futures)` for one future
AddResult(rep, r, who) ==
    IF r.raises
    THEN [rep EXCEPT !.errors = @ + 1, !.error_details = Append(@, who)]
    ELSE [rep EXCEPT !.generated = @ + r.out.generated,
                     !.updated = @ + r.out.updated,
                     !.skipped = @ + r.out.skipped,
                     !.errors = @ + r.out.errors]

\* the loop over as_completed(futures), the futures completing in order
RECURSIVE Aggregate(_, _, _)
Aggregate(rep, cands, order) ==
    IF order = <<>> THEN rep
    ELSE Aggregate(AddResult(rep, cands[Head(order)], Head(order)),
                   cands, Tail(order))

\* the orders in which n futures can complete
CompletionOrders(n) ==
    {q \in [1..n -> 1..n] : \A i, j \in 1..n : i # j => q[i] # q[j]}

\* the Session of ThumbService(session)
ServiceSession == "session"

\* the session the asset repo of the job of candidate i is bound to:
\* ThumbWorker(asset_repo=self.w), self.w = SqlAlchemyMediaAssetRepo(session),
\* and every job is tw.process_one of that one ThumbWorker
JobSession(i) == ServiceSession

\* ThumbService.run: no candidates: return; else the pool and the report
\* (scopes: per submitted job, the session it writes through)
RunReport(cands, w, order) ==
    IF Len(cands) = 0
    THEN EmptyRunReport
    ELSE Aggregate([EmptyRunReport EXCEPT
                      !.scanned = Len(cands),
                      !.pool = WorkerCount(w, MaxThumbWorkersCfg),
                      !.scopes = [i \in 1..Len(cands) |-> JobSession(i)]],
                   cands, order)

InitThumbRun ==
    /\ runCands \in SeqsUpTo(CandOutcomes, MaxCands)
    /\ runWorkers \in WorkerRequests
    /\ runPc = "ready"
    /\ runRep = EmptyRunReport

\* a caller loads the service and calls ThumbService(session).run(...)
ThumbServiceCall ==
    /\ runPc = "ready"
    /\ runPc' = "returned"
    /\ IF ImportThumbService # "none"
       THEN runRep' = [EmptyRunReport EXCEPT !.err = ImportThumbService]
       ELSE \E order \in CompletionOrders(Len(runCands)) :
              runRep' = RunReport(runCands, runWorkers, order)
    /\ UNCHANGED <<runCands, runWorkers>>
    /\ UNCHANGED notRunVars

NextThumbRun == ThumbServiceCall

-----------------------------------------------------------------------------
(* Properties of ThumbService.run *)

RECURSIVE SumOver(_, _)
SumOver(f, n) == IF n = 0 THEN 0 ELSE f[n] + SumOver(f, n - 1)

Raised == {i \in 1..Len(runCands) : runCands[i].raises}

\* C16: the report has scanned = number of candidates, each counter is the
\* sum of what process_one returned over the candidates, and every job that
\* raised adds one to errors and one entry to error_details.
C16_ReportSumsCounters ==
    runPc = "returned" =>
      LET n == Len(runCands) IN
        /\ runRep.err = "none"
        /\ runRep.scanned = n
        /\ runRep.generated = SumOver([i \in 1..n |-> runCands[i].out.generated], n)
        /\ runRep.updated = SumOver([i \in 1..n |-> runCands[i].out.updated], n)
        /\ runRep.skipped = SumOver([i \in 1..n |-> runCands[i].out.skipped], n)
        /\ runRep.errors = SumOver([i \in 1..n |-> runCands[i].out.errors], n)
                             + Cardinality(Raised)
        /\ Range(runRep.error_details) = Raised
        /\ Len(runRep.error_details) = Cardinality(Raised)

\* C25: in a run with more than one worker and more than one candidate,
\* every process_one job performs its upserts in a transactional scope of its
\* own: no two jobs write through the same session.
C25_JobsHaveOwnSessions ==
    (runPc = "returned" /\ Len(runCands) > 1
       /\ WorkerCount(runWorkers, MaxThumbWorkersCfg) > 1) =>
      /\ Len(runRep.scopes) = Len(runCands)
      /\ \A i, j \in 1..Len(runRep.scopes) :
           i # j => runRep.scopes[i] # runRep.scopes[j]

\* C17: for a run that has candidates, the pool has min(requested,
\* max_thumb_workers) workers and never fewer than 1, a request of None or 0
\* counting as 1.
C17_PoolSizeIsCappedRequest ==
    (runPc = "returned" /\ Len(runCands) > 0) =>
      LET asked == IF runWorkers.none \/ runWorkers.n = 0 THEN 1
                   ELSE runWorkers.n IN
        /\ runRep.pool >= 1
        /\ asked >= 1 => runRep.pool = IntMin({asked, MaxThumbWorkersCfg})

-----------------------------------------------------------------------------
(* External subprocesses: FFprobeAdapter.probe, and the ffprobe and ffmpeg
   calls of VideoThumbnail.generate_thumbnail and generate_collage *)

NoProc == [site |-> "none", st |-> "none", timeout |-> FALSE]

\* a child process started by subprocess.run / check_output / check_call;
\* timeout: whether the call passes timeout=
Spawn(site, timeout) == [site |-> site, st |-> "running", timeout |-> timeout]

ExtCalls ==
    {[kind |-> k, explicit |-> e, has_ffprobe |-> p, has_ffmpeg |-> m, frames |-> n] :
        k \in {"probe", "thumbnail", "collage"}, e \in BOOLEAN, p \in BOOLEAN,
        m \in BOOLEAN, n \in 1..MaxFrames}

InitExt ==
    /\ extCall \in ExtCalls
    /\ extCall.kind # "probe" => extCall.explicit
    /\ extCall.kind = "probe" => extCall.has_ffmpeg /\ extCall.frames = 1
    /\ extCall.kind = "thumbnail" => extCall.frames = 1
    /\ extPc = "ready"
    /\ extProc = NoProc
    /\ extDone = 0
    /\ extInfo = "none"
    /\ extErr = "none"

\* the call begins.  FFprobeAdapter(...).probe(path): the constructor reads
\* cfg.FFPROBE_BIN and cfg.PROBE_TIMEOUT_SEC unless both arguments are given,
\* and needs the binary; probe runs ffprobe with timeout=self.timeout_sec.
\* generate_thumbnail / generate_collage: info = self._probe_basic(), which
\* runs ffprobe through check_output when ffprobe was found
ExtBegin ==
    /\ extPc = "ready"
    /\ IF extCall.kind = "probe"
       THEN IF ~extCall.explicit
            THEN /\ extPc' = "raised"
                 /\ extErr' = "AttributeError"
                 /\ UNCHANGED extProc
            ELSE IF ~extCall.has_ffprobe
            THEN /\ extPc' = "raised"
                 /\ extErr' = "FFprobeError"
                 /\ UNCHANGED extProc
            ELSE /\ extPc' = "child"
                 /\ extProc' = Spawn("FFprobeAdapter.probe", TRUE)
                 /\ UNCHANGED extErr
       ELSE IF ~extCall.has_ffprobe
            THEN /\ extPc' = "probed"
                 /\ UNCHANGED <<extProc, extErr>>
            ELSE /\ extPc' = "child"
                 /\ extProc' = Spawn("_probe_basic", FALSE)
                 /\ UNCHANGED extErr
    /\ UNCHANGED <<extCall, extDone, extInfo>>
    /\ UNCHANGED notExtVars

\* the child process exits with a return code and the caller goes on
ProcExits ==
    /\ extPc = "child"
    /\ extProc.st = "running"
    /\ extProc' = [extProc EXCEPT !.st = "exited"]
    /\ \E rc \in {0, 1} :
         IF extProc.site = "FFprobeAdapter.probe"
         THEN /\ extPc' = IF rc = 0 THEN "returned" ELSE "raised"
              /\ extErr' = IF rc = 0 THEN "none" ELSE "FFprobeError"
              /\ UNCHANGED <<extDone, extInfo>>
         ELSE IF extProc.site = "_probe_basic"
         THEN /\ extPc' = "probed"
              /\ extInfo' = IF rc = 0 THEN "duration" ELSE "none"
              /\ UNCHANGED <<extDone, extErr>>
         ELSE IF rc = 0
              THEN /\ extPc' = "frames"
                   /\ extDone' = extDone + 1
                   /\ UNCHANGED <<extInfo, extErr>>
              ELSE /\ extPc' = "raised"
                   /\ extErr' = "RuntimeError"
                   /\ UNCHANGED <<extDone, extInfo>>
    /\ UNCHANGED extCall
    /\ UNCHANGED notExtVars

\* the child has not exited when the timeout of the call expires:
\* subprocess.TimeoutExpired, which probe turns into FFprobeError
ProcTimesOut ==
    /\ extPc = "child"
    /\ extProc.st = "running"
    /\ extProc.timeout
    /\ extProc' = [extProc EXCEPT !.st = "killed"]
    /\ extPc' = "raised"
    /\ extErr' = "FFprobeError"
    /\ UNCHANGED <<extCall, extDone, extInfo>>
    /\ UNCHANGED notExtVars

\* after _probe_basic: generate_collage returns None without a duration
AfterProbe ==
    /\ extPc = "probed"
    /\ extPc' = IF extCall.kind = "collage" /\ extInfo # "duration"
                THEN "returned" ELSE "frames"
    /\ UNCHANGED <<extCall, extProc, extDone, extInfo, extErr>>
    /\ UNCHANGED notExtVars

\* _extract_frame_tmp for the next time, through check_call; then the encode
ExtractNext ==
    /\ extPc = "frames"
    /\ IF extDone < extCall.frames
       THEN IF ~extCall.has_ffmpeg
            THEN /\ extPc' = "raised"
                 /\ extErr' = "RuntimeError"
                 /\ UNCHANGED extProc
            ELSE /\ extPc' = "child"
                 /\ extProc' = Spawn("_extract_frame_tmp", FALSE)
                 /\ UNCHANGED extErr
       ELSE /\ extPc' = "returned"
            /\ UNCHANGED <<extProc, extErr>>
    /\ UNCHANGED <<extCall, extDone, extInfo>>
    /\ UNCHANGED notExtVars

NextExt ==
    \/ ExtBegin
    \/ ProcExits
    \/ ProcTimesOut
    \/ AfterProbe
    \/ ExtractNext

\* C26: every subprocess started for probing or frame extraction is bounded
\* by a timeout of the call that started it, so that a child that never
\* exits makes the call fail instead of blocking it.
C26_SubprocessesHaveTimeout ==
    extProc.st = "running" => extProc.timeout

-----------------------------------------------------------------------------
(* Specifications: one component runs, the others stay as constructed *)

PlannerIdle ==
    /\ bucketMax = 1
    /\ repoCounts = <<>>
    /\ files = <<>>
    /\ counts = <<>>
    /\ planIdx = 1
    /\ items = <<>>
    /\ planPc = "idle"
    /\ planErr = "none"
    /\ lastCounts = <<>>
    /\ lastChoice = Ok(<<>>)

PoolIdle ==
    /\ maxQueue = 0
    /\ maxWorkers = 1
    /\ slots = 0
    /\ closed = FALSE
    /\ stopFlag = FALSE
    /\ execShutdown = FALSE
    /\ stats = [tasks_submitted |-> 0, tasks_completed |-> 0, tasks_failed |-> 0]
    /\ job = [j \in JobIds |-> NoJob]
    /\ sub = [t \in Submitters |-> [pc |-> "idle", job |-> 0]]
    /\ nextJob = 1
    /\ shutPc = "idle"
    /\ shutCalls = 0

IngestIdle ==
    /\ plan = [cls |-> "dict", items |-> <<>>]
    /\ dryRun = FALSE
    /\ dbCommitted = {}
    /\ txFlushed = {}
    /\ pending = {}
    /\ savepoint = FALSE
    /\ srcExists = [f \in Sources |-> TRUE]
    /\ destFile = [t \in Placeable |-> "none"]
    /\ itemDirs = {}
    /\ ingPc = "init"
    /\ idx = 1
    /\ rpt = [started |-> FALSE, finished |-> FALSE, planned_items |-> <<>>,
              created |-> 0, moved |-> 0, errors |-> 0, error_details |-> <<>>]
    /\ ingErr = "none"
    /\ movedItems = {}
    /\ failedAt = [i \in 1..Len(plan.items) |-> "none"]

ThumbIdle ==
    /\ assetRows = {}
    /\ lastUpsert = [k \in Kinds |-> NoAsset]
    /\ assetLastOp = "none"
    /\ thumbRuns = 0
    /\ thumbRegenAll = TRUE
    /\ thumbEnv = NoThumbEnv
    /\ thumbFiles = [k \in Kinds |-> 0]
    /\ thumbRep = [err |-> "none", scanned |-> 0, out |-> Counters(0, 0, 0, 0)]

BulkIdle ==
    /\ bulkMode = "map"
    /\ bulkN = 0
    /\ prefetch = 0
    /\ bulkPc = "new"
    /\ pulled = 0
    /\ bulkJob = 0
    /\ inflight = {}
    /\ snap = {}
    /\ futs = <<>>
    /\ yielded = <<>>
    /\ bulkErr = "none"

ThumbRunIdle ==
    /\ runCands = <<>>
    /\ runWorkers = NoneWorkers
    /\ runPc = "ready"
    /\ runRep = EmptyRunReport

ExtIdle ==
    /\ extCall = [kind |-> "probe", explicit |-> TRUE, has_ffprobe |-> TRUE,
                  has_ffmpeg |-> TRUE, frames |-> 1]
    /\ extPc = "ready"
    /\ extProc = NoProc
    /\ extDone = 0
    /\ extInfo = "none"
    /\ extErr = "none"

OthersIdle == BulkIdle /\ ThumbRunIdle /\ ExtIdle

InitSpecPlanner == InitPlanner /\ PoolIdle /\ IngestIdle /\ ThumbIdle /\ OthersIdle
SpecPlanner == InitSpecPlanner /\ [][NextPlanner]_vars

InitSpecPool == InitPool /\ PlannerIdle /\ IngestIdle /\ ThumbIdle /\ OthersIdle
SpecPool == InitSpecPool /\ [][NextPool]_vars

InitSpecIngest == InitIngest /\ PlannerIdle /\ PoolIdle /\ ThumbIdle /\ OthersIdle
SpecIngest == InitSpecIngest /\ [][NextIngest]_vars

InitSpecThumb == InitThumb /\ PlannerIdle /\ PoolIdle /\ IngestIdle /\ OthersIdle
SpecThumb == InitSpecThumb /\ [][NextThumb]_vars

InitSpecBulk ==
    InitPool /\ InitBulk /\ PlannerIdle /\ IngestIdle /\ ThumbIdle /\ ThumbRunIdle
    /\ ExtIdle
SpecBulk == InitSpecBulk /\ [][NextBulk]_vars

\* map() with threads that keep running: the caller and the workers take
\* their next step whenever they can
InitSpecMap == InitSpecBulk /\ bulkMode = "map"
FairSpecMap == InitSpecMap /\ [][NextMap]_vars /\ WF_vars(NextMap)

InitSpecImap == InitSpecBulk /\ bulkMode = "imap"
FairSpecImap == InitSpecImap /\ [][NextImap]_vars /\ WF_vars(NextImap)

InitSpecThumbRun ==
    InitThumbRun /\ PlannerIdle /\ PoolIdle /\ IngestIdle /\ ThumbIdle /\ BulkIdle
    /\ ExtIdle
SpecThumbRun == InitSpecThumbRun /\ [][NextThumbRun]_vars

InitSpecExt ==
    InitExt /\ PlannerIdle /\ PoolIdle /\ IngestIdle /\ ThumbIdle /\ BulkIdle
    /\ ThumbRunIdle
SpecExt == InitSpecExt /\ [][NextExt]_vars

====
